---- MODULE Spec2Model ----
(***************************************************************************)
(* RoleRadar: the job store (utils/database.py), the role matcher          *)
(* (utils/matcher.py), the "Run Now" block of app.py, the search loop,     *)
(* card detection and item extraction of the source adapters               *)
(* (scrapers/*.py) and the health prober (utils/scraper_health.py).        *)
(*                                                                         *)
(* Text values are TLA+ strings; the Python string operations used by the  *)
(* code (lower, strip, split, in, join) are defined on them character by   *)
(* character.  Timestamps (datetime.now().isoformat()) are the integer     *)
(* value of a clock that advances with every reading.                      *)
(***************************************************************************)
EXTENDS Integers, Sequences, FiniteSets, TLC

VARIABLES
    jobs_table,     \* rows of table jobs, in rowid order
    scrape_runs,    \* rows of table scrape_runs, in rowid order
    clock,          \* the next value datetime.now() returns
    op,             \* the last database call: name, arguments, outcome
    pre_jobs,       \* jobs_table as it was when the last call started
    pre_runs,       \* scrape_runs as it was when the last call started
    pc,             \* position of the script: idle, or a step of the run block
    roles,          \* the role names entered by the operator
    match_type,     \* "exact" or "similar"
    all_raw_jobs,   \* the jobs gathered from the adapters (filter_jobs' input)
    filtered,       \* the result of filter_jobs
    src_i,          \* run block: index of the source being searched
    source_results, \* run block: source -> number of jobs its search returned
    source_errors,  \* run block: source -> str(e)[:80] of the exception it raised
    new_count,      \* run block: new_count returned by save_jobs
    run_no,         \* number of runs started
    run_start_jobs, \* jobs_table as it was when the current run started
    run_start_runs, \* scrape_runs as it was when the current run started
    searched,       \* run block: what each search of the current run did
    matched,        \* the last matches_role call: arguments and result
    scraper,        \* SOURCE_NAME of the adapter whose search is called
    adzuna,         \* the AdzunaScraper object: app_id, app_key
    CURL_CFFI_AVAILABLE, \* seek.py: whether curl_cffi could be imported
    role_i,         \* adapter search: index of the role being queried
    all_jobs,       \* adapter search: the jobs gathered so far
    fetched,        \* adapter search: what each query of the call met
    events,         \* adapter search: the queries sent and the sleeps taken
    search_pc,      \* adapter search: idle, loop, returned or raised
    sources,        \* check_all_sources: the list of source names
    probes,         \* check_all_sources: one task per list position
    results,        \* check_all_sources: the result map, source name -> record
    health_pc,      \* check_all_sources: idle, running, returned or raised
    written,        \* check_all_sources: the keys of results assigned to, in order
    soup,           \* _parse_html: the elements of the fetched page, in page order
    job_cards,      \* _parse_html: the containers chosen for extraction
    items,          \* the candidate items of a payload (JSON results or cards)
    parsed,         \* the Job list built from the items (jobs in the adapters)
    parse_pc        \* extraction: idle, soup, cards, items or parsed

dbvars == <<jobs_table, scrape_runs, clock, op, pre_jobs, pre_runs>>
matchvars == <<roles, match_type, all_raw_jobs, filtered>>
runvars == <<src_i, source_results, source_errors, new_count, run_no, run_start_jobs,
             run_start_runs, searched>>
adaptervars == <<scraper, adzuna, CURL_CFFI_AVAILABLE, role_i, all_jobs, fetched, events, search_pc>>
healthvars == <<sources, probes, results, health_pc, written>>
parsevars == <<soup, job_cards, items, parsed, parse_pc>>
vars == <<jobs_table, scrape_runs, clock, op, pre_jobs, pre_runs,
          pc, roles, match_type, all_raw_jobs, filtered,
          src_i, source_results, source_errors, new_count, run_no, run_start_jobs,
          run_start_runs, searched, matched,
          scraper, adzuna, CURL_CFFI_AVAILABLE, role_i, all_jobs, fetched, events, search_pc,
          sources, probes, results, health_pc, written,
          soup, job_cards, items, parsed, parse_pc>>

\* ---------------------------------------------------------------- bounds

\* longest list handed to save_jobs when it is called directly
MaxLen == 2
\* number of clock readings in one behaviour of the store
MaxClock == 2
\* longest list handed to filter_jobs
MaxRaw == 3
\* longest list one adapter's search returns in a run
MaxFound == 1
\* number of runs in one behaviour
MaxRuns == 2
\* longest list of source names handed to check_all_sources
MaxSources == 2
\* number of elements of a fetched page
MaxElements == 2

\* ------------------------------------------------------------ job values

\* Python None / SQL NULL
None == "<None>"

Job(title, company, location, url, source, description, salary, date_posted, scraped_at) ==
    [title |-> title, company |-> company, location |-> location, url |-> url,
     source |-> source, description |-> description, salary |-> salary,
     date_posted |-> date_posted, scraped_at |-> scraped_at]

RECURSIVE SeqsUpTo(_, _)
SeqsUpTo(S, n) ==
    IF n = 0 THEN {<<>>}
    ELSE LET shorter == SeqsUpTo(S, n - 1)
         IN  shorter \cup {Append(s, x) : s \in {t \in shorter : Len(t) = n - 1}, x \in S}

\* ------------------------------------------------- Python str operations

UpperCase == "ABCDEFGHIJKLMNOPQRSTUVWXYZ"
LowerCase == "abcdefghijklmnopqrstuvwxyz"

CharAt(s, i) == SubSeq(s, i, i)

\* upper-case letter -> its lower-case letter
LowerMap == [c \in {CharAt(UpperCase, i) : i \in 1 .. Len(UpperCase)} |->
                CharAt(LowerCase, CHOOSE i \in 1 .. Len(UpperCase) : CharAt(UpperCase, i) = c)]

LowerChar(c) == IF c \in DOMAIN LowerMap THEN LowerMap[c] ELSE c

\* str.lower()
RECURSIVE Lower(_)
Lower(s) == IF s = "" THEN "" ELSE LowerChar(Head(s)) \o Lower(Tail(s))

IsSpace(c) == c \in {" ", "\t", "\n", "\r"}

RECURSIVE LStrip(_)
LStrip(s) == IF s # "" /\ IsSpace(Head(s)) THEN LStrip(Tail(s)) ELSE s

RECURSIVE RStrip(_)
RStrip(s) ==
    IF s # "" /\ IsSpace(CharAt(s, Len(s))) THEN RStrip(SubSeq(s, 1, Len(s) - 1)) ELSE s

\* str.strip()
Strip(s) == RStrip(LStrip(s))

\* needle in hay
Contains(hay, needle) ==
    \E i \in 1 .. (Len(hay) - Len(needle) + 1) : SubSeq(hay, i, i + Len(needle) - 1) = needle

\* str.split(): the maximal runs of non-whitespace, in order
RECURSIVE SplitFrom(_, _, _)
SplitFrom(s, i, word) ==
    IF i > Len(s) THEN (IF word = "" THEN <<>> ELSE <<word>>)
    ELSE IF IsSpace(CharAt(s, i))
         THEN (IF word = "" THEN <<>> ELSE <<word>>) \o SplitFrom(s, i + 1, "")
         ELSE SplitFrom(s, i + 1, word \o CharAt(s, i))

Split(s) == SplitFrom(s, 1, "")

\* sep.join(strs)
RECURSIVE Join(_, _)
Join(strs, sep) ==
    IF strs = <<>> THEN ""
    ELSE IF Len(strs) = 1 THEN strs[1]
    ELSE strs[1] \o sep \o Join(Tail(strs), sep)

\* text[:n]
Truncate(text, n) == IF Len(text) <= n THEN text ELSE SubSeq(text, 1, n)

Digits == "0123456789"

\* str(n) of an integer n >= 0
RECURSIVE Str(_)
Str(n) ==
    IF n < 10 THEN CharAt(Digits, n + 1)
    ELSE Str(n \div 10) \o CharAt(Digits, (n % 10) + 1)

\* -------------------------------------------------------- utils/matcher.py

\* the dict RELATED_ROLES as its (key, value) items in insertion order
RELATED_ROLES == <<
    <<"project manager", <<"program manager", "project lead", "delivery manager", "delivery lead", "technical delivery lead", "project coordinator", "project officer", "project administrator", "pmo", "project director", "it project manager", "technical project manager", "agile project manager", "project specialist", "project consultant", "engagement manager", "implementation manager">>>>,
    <<"program manager", <<"project manager", "portfolio manager", "delivery manager", "program director", "programme manager">>>>,
    <<"delivery manager", <<"project manager", "program manager", "engineering manager", "release manager", "scrum master">>>>,
    <<"scrum master", <<"agile coach", "agile lead", "product owner", "delivery lead", "iteration manager">>>>,
    <<"product manager", <<"product owner", "product director", "head of product", "digital product manager", "technical product manager", "vp product">>>>,
    <<"product owner", <<"product manager", "scrum master", "business analyst">>>>,
    <<"business analyst", <<"systems analyst", "functional analyst", "solution analyst", "process analyst", "requirements analyst", "product analyst", "ba">>>>,
    <<"software engineer", <<"software developer", "programmer", "full stack developer", "full-stack developer", "backend developer", "front-end developer", "frontend developer", "software architect", "application developer", "developer">>>>,
    <<"software developer", <<"software engineer", "programmer", "developer", "full stack developer">>>>,
    <<"devops engineer", <<"site reliability engineer", "sre", "infrastructure engineer", "cloud engineer", "platform engineer", "build engineer", "release engineer">>>>,
    <<"data scientist", <<"machine learning engineer", "ml engineer", "ai engineer", "data analyst", "research scientist", "data engineer">>>>,
    <<"data analyst", <<"business intelligence analyst", "bi analyst", "reporting analyst", "analytics engineer", "insights analyst", "data specialist">>>>,
    <<"data engineer", <<"analytics engineer", "etl developer", "data architect", "database developer">>>>,
    <<"ux designer", <<"ui designer", "ux/ui designer", "product designer", "interaction designer", "user experience designer", "user interface designer", "visual designer">>>>,
    <<"account manager", <<"client manager", "key account manager", "national account manager", "customer success manager", "relationship manager", "sales manager">>>>,
    <<"marketing manager", <<"digital marketing manager", "content marketing manager", "brand manager", "growth marketing manager", "campaign manager", "marketing specialist">>>>
>>

_normalize(text) == Strip(Lower(text))

level_words == {"senior", "junior", "lead", "principal", "staff", "associate", "head", "chief"}

get_related_roles(role) ==
    LET role_lower == _normalize(role)
        direct == {i \in DOMAIN RELATED_ROLES : RELATED_ROLES[i][1] = role_lower}
        partial == {i \in DOMAIN RELATED_ROLES :
                       \/ Contains(role_lower, RELATED_ROLES[i][1])
                       \/ Contains(RELATED_ROLES[i][1], role_lower)}
        First(S) == CHOOSE i \in S : \A j \in S : i <= j
        words == Split(role_lower)
        NotLevel(w) == w \notin level_words
        base_words == SelectSeq(words, NotLevel)
        stripped == IF Len(base_words) < Len(words) THEN <<Join(base_words, " ")>> ELSE <<>>
        base == IF base_words # <<>> THEN Join(base_words, " ") ELSE role_lower
    IN  IF direct # {} THEN RELATED_ROLES[First(direct)][2]
        ELSE IF partial # {} THEN RELATED_ROLES[First(partial)][2]
        ELSE stripped \o <<"senior " \o base, "lead " \o base, "principal " \o base>>

_mgmt_keywords ==
    {"manager", "lead", "director", "coordinator", "officer",
     "head", "chief", "specialist", "consultant", "analyst",
     "administrator", "supervisor", "executive", "partner",
     "architect", "advisor", "engineer", "associate"}

RECURSIVE Initials(_)
Initials(words) == IF words = <<>> THEN "" ELSE Head(words[1]) \o Initials(Tail(words))

\* faulty variant: the abbreviation rule without its length guard
matches_role_no_length_guard(job_title, role, mode) ==
    LET title_lower == _normalize(job_title)
        role_lower == _normalize(role)
        abbreviation == Initials(Split(role_lower))
        alts == get_related_roles(role)
        Significant(w) == Len(w) >= 4
        role_words == SelectSeq(Split(role_lower), Significant)
        title_words == {Split(title_lower)[i] : i \in DOMAIN Split(title_lower)}
    IN  \/ Contains(title_lower, role_lower)
        \/ title_lower = abbreviation
        \/ /\ mode = "similar"
           /\ \/ \E i \in DOMAIN alts : Contains(title_lower, _normalize(alts[i]))
              \/ /\ role_words # <<>>
                 /\ \A i \in DOMAIN role_words : Contains(title_lower, role_words[i])
              \/ \E i \in DOMAIN role_words :
                    /\ Contains(title_lower, role_words[i])
                    /\ title_words \cap _mgmt_keywords # {}

\* faulty variant: similar mode without the all-significant-words rule
matches_role_no_all_words(job_title, role, mode) ==
    LET title_lower == _normalize(job_title)
        role_lower == _normalize(role)
        abbreviation == Initials(Split(role_lower))
        alts == get_related_roles(role)
        Significant(w) == Len(w) >= 4
        role_words == SelectSeq(Split(role_lower), Significant)
        title_words == {Split(title_lower)[i] : i \in DOMAIN Split(title_lower)}
    IN  \/ Contains(title_lower, role_lower)
        \/ Len(abbreviation) >= 2 /\ title_lower = abbreviation
        \/ /\ mode = "similar"
           /\ \/ \E i \in DOMAIN alts : Contains(title_lower, _normalize(alts[i]))
              \/ \E i \in DOMAIN role_words :
                    /\ Contains(title_lower, role_words[i])
                    /\ title_words \cap _mgmt_keywords # {}

\* faulty variant: similar mode accepting a title as soon as it shares one
\* letter with the role
matches_role_any_letter(job_title, role, mode) ==
    LET title_lower == _normalize(job_title)
        role_lower == _normalize(role)
        abbreviation == Initials(Split(role_lower))
    IN  \/ Contains(title_lower, role_lower)
        \/ Len(abbreviation) >= 2 /\ title_lower = abbreviation
        \/ /\ mode = "similar"
           /\ \E i \in 1 .. Len(role_lower) : Contains(title_lower, CharAt(role_lower, i))

\* faulty variant: the keyword of the partial-word rule looked for anywhere in
\* the title instead of among its whitespace-separated words
matches_role_keyword_substring(job_title, role, mode) ==
    LET title_lower == _normalize(job_title)
        role_lower == _normalize(role)
        abbreviation == Initials(Split(role_lower))
        alts == get_related_roles(role)
        Significant(w) == Len(w) >= 4
        role_words == SelectSeq(Split(role_lower), Significant)
    IN  \/ Contains(title_lower, role_lower)
        \/ Len(abbreviation) >= 2 /\ title_lower = abbreviation
        \/ /\ mode = "similar"
           /\ \/ \E i \in DOMAIN alts : Contains(title_lower, _normalize(alts[i]))
              \/ /\ role_words # <<>>
                 /\ \A i \in DOMAIN role_words : Contains(title_lower, role_words[i])
              \/ \E i \in DOMAIN role_words :
                    /\ Contains(title_lower, role_words[i])
                    /\ \E k \in _mgmt_keywords : Contains(title_lower, k)

\* faulty variant: the abbreviation rule applied in exact mode only
matches_role_abbreviation_exact_only(job_title, role, mode) ==
    LET title_lower == _normalize(job_title)
        role_lower == _normalize(role)
        abbreviation == Initials(Split(role_lower))
        alts == get_related_roles(role)
        Significant(w) == Len(w) >= 4
        role_words == SelectSeq(Split(role_lower), Significant)
        title_words == {Split(title_lower)[i] : i \in DOMAIN Split(title_lower)}
    IN  \/ Contains(title_lower, role_lower)
        \/ mode = "exact" /\ Len(abbreviation) >= 2 /\ title_lower = abbreviation
        \/ /\ mode = "similar"
           /\ \/ \E i \in DOMAIN alts : Contains(title_lower, _normalize(alts[i]))
              \/ /\ role_words # <<>>
                 /\ \A i \in DOMAIN role_words : Contains(title_lower, role_words[i])
              \/ \E i \in DOMAIN role_words :
                    /\ Contains(title_lower, role_words[i])
                    /\ title_words \cap _mgmt_keywords # {}

matches_role(job_title, role, mode) ==
    LET title_lower == _normalize(job_title)
        role_lower == _normalize(role)
        abbreviation == Initials(Split(role_lower))
        alts == get_related_roles(role)
        Significant(w) == Len(w) >= 4
        role_words == SelectSeq(Split(role_lower), Significant)
        title_words == {Split(title_lower)[i] : i \in DOMAIN Split(title_lower)}
    IN  \/ Contains(title_lower, role_lower)
        \/ Len(abbreviation) >= 2 /\ title_lower = abbreviation
        \/ /\ mode = "similar"
           /\ \/ \E i \in DOMAIN alts : Contains(title_lower, _normalize(alts[i]))
              \/ /\ role_words # <<>>
                 /\ \A i \in DOMAIN role_words : Contains(title_lower, role_words[i])
              \/ \E i \in DOMAIN role_words :
                    /\ Contains(title_lower, role_words[i])
                    /\ title_words \cap _mgmt_keywords # {}

\* (job.title or ''): None and "" both give ""
OrEmpty(s) == IF s = None THEN "" ELSE s

\* faulty variant: the url as the key even when it is empty
dedup_key_url_always(job) == job.url

\* the dedup key of filter_jobs: the url when it is truthy, else title|company
dedup_key(job) ==
    IF job.url # None /\ job.url # ""
    THEN job.url
    ELSE Strip(Lower(OrEmpty(job.title))) \o "|" \o Strip(Lower(OrEmpty(job.company)))

\* faulty variant: the loop over the roles without its break, so that a job
\* is appended once for every role it matches
RECURSIVE FilterLoop_NoBreak(_, _, _, _, _, _)
FilterLoop_NoBreak(jobs, i, rs, mode, seen, acc) ==
    IF i > Len(jobs) THEN acc
    ELSE LET job == jobs[i]
             key == dedup_key(job)
             hits == Cardinality({r \in DOMAIN rs : matches_role(job.title, rs[r], mode)})
         IN  IF key \in seen THEN FilterLoop_NoBreak(jobs, i + 1, rs, mode, seen, acc)
             ELSE IF hits > 0
                  THEN FilterLoop_NoBreak(jobs, i + 1, rs, mode, seen \cup {key},
                                          acc \o [k \in 1 .. hits |-> job])
                  ELSE FilterLoop_NoBreak(jobs, i + 1, rs, mode, seen, acc)

\* faulty variant: the key of every job looked at is marked as seen, whether
\* or not the job matched a role
RECURSIVE FilterLoop_SeenAlways(_, _, _, _, _, _)
FilterLoop_SeenAlways(jobs, i, rs, mode, seen, acc) ==
    IF i > Len(jobs) THEN acc
    ELSE LET job == jobs[i]
             key == dedup_key(job)
         IN  IF key \in seen THEN FilterLoop_SeenAlways(jobs, i + 1, rs, mode, seen, acc)
             ELSE IF \E r \in DOMAIN rs : matches_role(job.title, rs[r], mode)
                  THEN FilterLoop_SeenAlways(jobs, i + 1, rs, mode, seen \cup {key},
                                             Append(acc, job))
                  ELSE FilterLoop_SeenAlways(jobs, i + 1, rs, mode, seen \cup {key}, acc)

\* the loop of filter_jobs over jobs[i..] with the keys seen so far
RECURSIVE FilterLoop(_, _, _, _, _, _)
FilterLoop(jobs, i, rs, mode, seen, acc) ==
    IF i > Len(jobs) THEN acc
    ELSE LET job == jobs[i]
             key == dedup_key(job)
         IN  IF key \in seen THEN FilterLoop(jobs, i + 1, rs, mode, seen, acc)
             ELSE IF \E r \in DOMAIN rs : matches_role(job.title, rs[r], mode)
                  THEN FilterLoop(jobs, i + 1, rs, mode, seen \cup {key}, Append(acc, job))
                  ELSE FilterLoop(jobs, i + 1, rs, mode, seen, acc)

filter_jobs(jobs, rs, mode) == FilterLoop(jobs, 1, rs, mode, {}, <<>>)

\* ------------------------------------------------------ utils/database.py

\* CREATE TABLE jobs: title NOT NULL, url UNIQUE.  SQLite's UNIQUE treats
\* NULLs as distinct and every other value, the empty string included, as
\* an ordinary value.
\* faulty variant: a schema whose url column is not UNIQUE
ViolatesConstraint_NoUnique(table, row) == row.title = None

ViolatesConstraint(table, row) ==
    \/ row.title = None
    \/ /\ row.url # None
       /\ \E i \in DOMAIN table : table[i].url = row.url

StoredRow(job, now) ==
    [title |-> job.title, company |-> job.company, location |-> job.location,
     salary |-> job.salary, date_posted |-> job.date_posted, url |-> job.url,
     source |-> job.source, description |-> job.description,
     scraped_at |-> job.scraped_at, first_seen |-> now]

\* faulty variant: INSERT OR REPLACE, which deletes the conflicting row first
InsertOrReplace(table, job, now) ==
    LET row == StoredRow(job, now)
        Keep(r) == r.url = None \/ r.url # row.url
    IN  IF row.title = None THEN [table |-> table, rowcount |-> 0]
        ELSE [table |-> Append(SelectSeq(table, Keep), row), rowcount |-> 1]

\* INSERT OR IGNORE INTO jobs ...: the new table and cursor.rowcount
InsertOrIgnore(table, job, now) ==
    IF ViolatesConstraint(table, StoredRow(job, now))
    THEN [table |-> table, rowcount |-> 0]
    ELSE [table |-> Append(table, StoredRow(job, now)), rowcount |-> 1]

\* the loop of save_jobs over jobs[i..]: faults is the set of positions at
\* which cursor.execute raises; the except clause logs and goes on
RECURSIVE SaveLoop(_, _, _, _, _, _)
SaveLoop(table, jobs, i, faults, now, count) ==
    IF i > Len(jobs) THEN [table |-> table, new_count |-> count]
    ELSE IF i \in faults
         THEN SaveLoop(table, jobs, i + 1, faults, now, count)
         ELSE LET r == InsertOrIgnore(table, jobs[i], now)
              IN  SaveLoop(r.table, jobs, i + 1, faults, now,
                           IF r.rowcount > 0 THEN count + 1 ELSE count)

\* op.faults: the statements of the call that raised inside the store;
\* op.raised: whether an exception left the function
NoCall ==
    [name |-> "none", jobs |-> <<>>, faults |-> {}, roles |-> <<>>,
     jobs_found |-> 0, jobs_new |-> 0, raised |-> FALSE, ret |-> <<0, 0>>]

\* save_jobs returns in every case: an insert that raises is caught
save_jobs(jobs, faults) ==
    /\ pre_jobs' = jobs_table
    /\ pre_runs' = scrape_runs
    /\ IF jobs = <<>>
       THEN /\ jobs_table' = jobs_table
            /\ clock' = clock
            /\ op' = [NoCall EXCEPT !.name = "save_jobs", !.ret = <<0, 0>>]
       ELSE LET r == SaveLoop(jobs_table, jobs, 1, faults, clock, 0)
            IN  /\ clock' = clock + 1
                /\ jobs_table' = r.table
                /\ op' = [NoCall EXCEPT !.name = "save_jobs", !.jobs = jobs,
                                        !.faults = faults,
                                        !.ret = <<Len(jobs), r.new_count>>]
    /\ scrape_runs' = scrape_runs

RunRow(run_at, rs, jobs_found, jobs_new) ==
    [run_at |-> run_at, roles |-> Join(rs, ", "),
     jobs_found |-> jobs_found, jobs_new |-> jobs_new]

\* faulty variant: log_run with the try/except of save_jobs around its INSERT
log_run_swallowing(rs, jobs_found, jobs_new, fault) ==
    /\ clock' = clock + 1
    /\ pre_jobs' = jobs_table
    /\ pre_runs' = scrape_runs
    /\ scrape_runs' = IF fault THEN scrape_runs
                      ELSE Append(scrape_runs, RunRow(clock, rs, jobs_found, jobs_new))
    /\ jobs_table' = jobs_table
    /\ op' = [NoCall EXCEPT !.name = "log_run", !.roles = rs,
                            !.jobs_found = jobs_found, !.jobs_new = jobs_new,
                            !.faults = IF fault THEN {1} ELSE {},
                            !.raised = FALSE]

\* log_run has no handler: when the INSERT (or the commit) raises, the
\* exception leaves log_run and the uncommitted row is lost
log_run(rs, jobs_found, jobs_new, fault) ==
    /\ clock' = clock + 1
    /\ pre_jobs' = jobs_table
    /\ pre_runs' = scrape_runs
    /\ scrape_runs' = IF fault THEN scrape_runs
                      ELSE Append(scrape_runs, RunRow(clock, rs, jobs_found, jobs_new))
    /\ jobs_table' = jobs_table
    /\ op' = [NoCall EXCEPT !.name = "log_run", !.roles = rs,
                            !.jobs_found = jobs_found, !.jobs_new = jobs_new,
                            !.faults = IF fault THEN {1} ELSE {},
                            !.raised = fault]

\* faulty variant: clear_jobs_only with the second DELETE of clear_all_jobs
clear_jobs_only_and_runs(fault) ==
    /\ pre_jobs' = jobs_table
    /\ pre_runs' = scrape_runs
    /\ jobs_table' = IF fault THEN jobs_table ELSE <<>>
    /\ scrape_runs' = IF fault THEN scrape_runs ELSE <<>>
    /\ clock' = clock
    /\ op' = [NoCall EXCEPT !.name = "clear_jobs_only",
                            !.faults = IF fault THEN {1} ELSE {}, !.raised = fault]

\* DELETE FROM jobs; a raise before the commit leaves the table as it was
clear_jobs_only(fault) ==
    /\ pre_jobs' = jobs_table
    /\ pre_runs' = scrape_runs
    /\ jobs_table' = IF fault THEN jobs_table ELSE <<>>
    /\ scrape_runs' = scrape_runs
    /\ clock' = clock
    /\ op' = [NoCall EXCEPT !.name = "clear_jobs_only",
                            !.faults = IF fault THEN {1} ELSE {}, !.raised = fault]

\* DELETE FROM jobs; DELETE FROM scrape_runs; one transaction
clear_all_jobs(fault) ==
    /\ pre_jobs' = jobs_table
    /\ pre_runs' = scrape_runs
    /\ jobs_table' = IF fault THEN jobs_table ELSE <<>>
    /\ scrape_runs' = IF fault THEN scrape_runs ELSE <<>>
    /\ clock' = clock
    /\ op' = [NoCall EXCEPT !.name = "clear_all_jobs",
                            !.faults = IF fault THEN {1} ELSE {}, !.raised = fault]

\* init_db on a fresh file: both tables created empty
EmptyStore ==
    /\ jobs_table = <<>>
    /\ scrape_runs = <<>>
    /\ clock = 0
    /\ op = NoCall
    /\ pre_jobs = <<>>
    /\ pre_runs = <<>>

\* no matches_role call yet
NoMatch == [job_title |-> "", role |-> "", mode |-> "none", result |-> FALSE]

\* ------------------------------------------------------------ scrapers/*.py

\* AdzunaScraper.__init__: both credentials stripped
AdzunaScraper(app_id, app_key) == [app_id |-> Strip(app_id), app_key |-> Strip(app_key)]

is_configured(self) == self.app_id # "" /\ self.app_key # ""

\* time.sleep(...) of each adapter's search loop, in seconds
Delay(name) ==
    CASE name = "Seek" -> 2
      [] name = "LinkedIn" -> 3
      [] name = "GradConnection" -> 2
      [] name = "Adzuna" -> 1

\* the adapters that read response.json(); the others parse HTML
JsonAdapters == {"Seek", "Adzuna"}

\* what one query meets: kind "transport" (the request raises) or
\* "response" with a status code and a payload, which is "garbled" (no JSON,
\* no known markup), "scalar" (JSON that is not an object) or "listing" (the
\* items the jobs are extracted from)
Fetch(kind, status_code, payload, jobs) ==
    [kind |-> kind, status_code |-> status_code, payload |-> payload, jobs |-> jobs]

\* _search_role: the jobs it returns, or raised when an exception leaves it
\* (data.get(...) on JSON that is not an object is outside its try blocks)
_search_role(name, fetch) ==
    IF fetch.kind = "transport" THEN [raised |-> FALSE, jobs |-> <<>>]
    ELSE IF fetch.status_code # 200 THEN [raised |-> FALSE, jobs |-> <<>>]
    ELSE IF fetch.payload = "listing" THEN [raised |-> FALSE, jobs |-> fetch.jobs]
    ELSE IF fetch.payload = "scalar" /\ name \in JsonAdapters
         THEN [raised |-> TRUE, jobs |-> <<>>]
         ELSE [raised |-> FALSE, jobs |-> <<>>]

Query == [kind |-> "query", secs |-> 0]

Sleep(secs) == [kind |-> "sleep", secs |-> secs]

\* faulty variant: the loop body of search without its try/except
search_iteration_unguarded(name, gathered, fetch) ==
    LET r == _search_role(name, fetch)
    IN  IF r.raised
        THEN [all_jobs |-> gathered, events |-> <<Query>>, raised |-> TRUE]
        ELSE [all_jobs |-> gathered \o r.jobs, events |-> <<Query, Sleep(Delay(name))>>,
              raised |-> FALSE]

\* the loop body of search: try: jobs = self._search_role(role);
\* all_jobs.extend(jobs); time.sleep(d)  except Exception: logger.error(...)
search_iteration(name, gathered, fetch) ==
    LET r == _search_role(name, fetch)
    IN  IF r.raised
        THEN [all_jobs |-> gathered, events |-> <<Query>>, raised |-> FALSE]
        ELSE [all_jobs |-> gathered \o r.jobs, events |-> <<Query, Sleep(Delay(name))>>,
              raised |-> FALSE]

\* the early return of search: Adzuna without credentials, Seek without curl_cffi
Disabled(name) ==
    \/ name = "Adzuna" /\ ~is_configured(adzuna)
    \/ name = "Seek" /\ ~CURL_CFFI_AVAILABLE

\* no adapter search called
NoSearch ==
    /\ scraper = "none"
    /\ role_i = 0
    /\ all_jobs = <<>>
    /\ fetched = <<>>
    /\ events = <<>>
    /\ search_pc = "idle"

\* ------------------------------------ scrapers/*.py: cards and items

\* an element of the parsed page: tag name, class attribute, whether an h2 or
\* h3 and an a[href] lie below it, and the tag name of its parent
Element(name, class, heading, link, parent) ==
    [name |-> name, class |-> class, heading |-> heading, link |-> link, parent |-> parent]

\* find_all(..., class_="c"): one of the element's classes is c
HasClass(e, c) == \E i \in DOMAIN Split(e.class) : Split(e.class)[i] = c

\* list[:n]
Take(list, n) == IF Len(list) <= n THEN list ELSE SubSeq(list, 1, n)

\* the containers the k-th selector strategy of an adapter finds: find_all
\* gives the elements that pass its test, in page order
Candidates(name, k, page) ==
    LET CampaignBox(e) == e.name = "div" /\ HasClass(e, "campaign-listing-box")
        ListingBox(e) == e.name = "div" /\ e.class # "" /\ Contains(e.class, "listing-box")
        JobCard(e) == e.name = "div" /\ e.class # "" /\ Contains(Lower(e.class), "job-card")
        JobArticle(e) == /\ e.name = "article"
                         /\ e.class # ""
                         /\ \/ Contains(Lower(e.class), "job")
                            \/ Contains(Lower(e.class), "listing")
        HeadedDiv(e) == /\ e.name = "div"
                        /\ e.heading
                        /\ e.link
                        /\ e.class # ""
                        /\ e.parent # "div"
        BaseCard(e) == e.name = "div" /\ HasClass(e, "base-card")
        SearchCard(e) == e.name = "li" /\ e.class # "" /\ Contains(e.class, "job-search-card")
    IN  CASE name = "GradConnection" /\ k = 1 -> SelectSeq(page, CampaignBox)
          [] name = "GradConnection" /\ k = 2 -> SelectSeq(page, ListingBox)
          [] name = "GradConnection" /\ k = 3 -> SelectSeq(page, JobCard)
          [] name = "GradConnection" /\ k = 4 -> SelectSeq(page, JobArticle)
          [] name = "GradConnection" /\ k = 5 -> Take(SelectSeq(page, HeadedDiv), 30)
          [] name = "LinkedIn" /\ k = 1 -> SelectSeq(page, BaseCard)
          [] name = "LinkedIn" /\ k = 2 -> SelectSeq(page, SearchCard)

\* a or b on lists: a when it is not empty, else b
Or(a, b) == IF a # <<>> THEN a ELSE b

\* faulty variant: the containers of every strategy, one list after the other
find_job_cards_all_strategies(name, page) ==
    IF name = "GradConnection"
    THEN Candidates(name, 1, page) \o Candidates(name, 2, page) \o Candidates(name, 3, page)
         \o Candidates(name, 4, page) \o Candidates(name, 5, page)
    ELSE Candidates(name, 1, page) \o Candidates(name, 2, page)

\* the card detection of _parse_html: job_cards
find_job_cards(name, page) ==
    IF name = "GradConnection"
    THEN Or(Candidates(name, 1, page),
         Or(Candidates(name, 2, page),
         Or(Candidates(name, 3, page),
         Or(Candidates(name, 4, page), Candidates(name, 5, page)))))
    ELSE IF Candidates(name, 1, page) = <<>>
         THEN Candidates(name, 2, page)
         ELSE Candidates(name, 1, page)

\* a key of a JSON object, or an element looked for in a card: absent, null
\* (JSON only), or there with a value
Field(kind, value) == [kind |-> kind, value |-> value]

\* dict.get(key, default) of a string-valued key
Get(field, default) ==
    CASE field.kind = "absent" -> default
      [] field.kind = "null" -> None
      [] field.kind = "value" -> field.value

\* ", ".join(parts[-2:])
LastTwo(parts) ==
    IF Len(parts) <= 2 THEN Join(parts, ", ")
    ELSE Join(SubSeq(parts, Len(parts) - 1, Len(parts)), ", ")

\* one pass of "for item in data.get('results', [])" of AdzunaScraper: the
\* jobs it appends.  An item is [title, company |-> [kind, display_name],
\* location |-> [kind, area], description]; the items carry no salary_min,
\* salary_max, redirect_url and created.  None.get(...) and None[:300] raise,
\* and the except clause of the pass goes on to the next item.
adzuna_item(item) ==
    LET title == Get(item.title, "")
        company == IF item.company.kind = "absent" THEN "Unknown"
                   ELSE Get(item.company.display_name, "Unknown")
        location_parts == IF item.location.kind = "absent" \/ item.location.area.kind # "value"
                          THEN <<>>
                          ELSE item.location.area.value
        location == IF location_parts # <<>> THEN LastTwo(location_parts) ELSE "Australia"
        description == Get(item.description, "")
    IN  IF title = None \/ title = "" THEN <<>>
        ELSE IF item.company.kind = "null" THEN <<>>
        ELSE IF item.location.kind = "null" THEN <<>>
        ELSE IF description = None THEN <<>>
        ELSE <<Job(title, company, location, "", "Adzuna", Truncate(description, 300),
                   None, None, 0)>>

GRADCONNECTION_BASE_URL == "https://au.gradconnection.com"

StartsWith(text, prefix) ==
    Len(text) >= Len(prefix) /\ SubSeq(text, 1, Len(prefix)) = prefix

\* one pass of "for card in job_cards" of GradConnectionScraper._parse_html.
\* A card is what its finds return: title_el and location_el and
\* discipline_el with their stripped text, href of the link, company_el with
\* its stripped strings.
gradconnection_card(card) ==
    LET title == card.title_el.value
        href == card.href
        url == IF href.kind = "value" /\ href.value # ""
               THEN (IF StartsWith(href.value, "http") THEN href.value
                     ELSE GRADCONNECTION_BASE_URL \o href.value)
               ELSE ""
        Usable(t) == t # "" /\ t # title
        company_texts == SelectSeq(card.company_el.value, Usable)
        company == IF card.company_el.kind = "value" /\ company_texts # <<>>
                   THEN company_texts[1]
                   ELSE "Unknown"
        location == IF card.location_el.kind = "value" /\ card.location_el.value # ""
                    THEN card.location_el.value
                    ELSE "Australia"
        description == IF card.discipline_el.kind = "value" THEN card.discipline_el.value ELSE ""
    IN  IF card.title_el.kind # "value" THEN <<>>
        ELSE IF title = "" THEN <<>>
        ELSE <<Job(title, company, location, url, "GradConnection", description, None, None, 0)>>

\* the loop over the items of a payload: the jobs list it builds
RECURSIVE parse_items(_, _)
parse_items(name, payload) ==
    IF payload = <<>> THEN <<>>
    ELSE (IF name = "Adzuna" THEN adzuna_item(Head(payload))
          ELSE gradconnection_card(Head(payload)))
         \o parse_items(name, Tail(payload))

\* no extraction going on
NoParse ==
    /\ soup = <<>>
    /\ job_cards = <<>>
    /\ items = <<>>
    /\ parsed = <<>>
    /\ parse_pc = "idle"

\* ------------------------------------------------- utils/scraper_health.py

SOURCE_URLS ==
    ("Seek" :> "https://www.seek.com.au") @@ ("Indeed" :> "https://au.indeed.com")
    @@ ("Jora" :> "https://au.jora.com") @@ ("LinkedIn" :> "https://www.linkedin.com")
    @@ ("GradConnection" :> "https://au.gradconnection.com")
    @@ ("Adzuna" :> "https://www.adzuna.com.au")

\* status_code None
NoStatus == -1

HealthRecord(online, latency_ms, status_code, note) ==
    [online |-> online, latency_ms |-> latency_ms, status_code |-> status_code, note |-> note]

\* what requests.get meets: kind "response" with a status code, "timeout"
\* (requests.exceptions.Timeout), "connection" (ConnectionError) or
\* "exception" (any other Exception, with its message); latency_ms is the
\* time measured around the request
Outcome(kind, status_code, message, latency_ms) ==
    [kind |-> kind, status_code |-> status_code, message |-> message, latency_ms |-> latency_ms]

NoOutcome == Outcome("none", NoStatus, "", 0)

\* faulty variant: a status of 500 or more reported as offline
check_source_5xx_offline(source_name, outcome) ==
    IF source_name \notin DOMAIN SOURCE_URLS
    THEN HealthRecord(FALSE, 0, NoStatus, "Unknown source")
    ELSE CASE outcome.kind = "response" ->
                 IF outcome.status_code = 999
                 THEN HealthRecord(TRUE, outcome.latency_ms, 999, "Reachable (bot-detection active)")
                 ELSE IF outcome.status_code < 400
                 THEN HealthRecord(TRUE, outcome.latency_ms, outcome.status_code, "OK")
                 ELSE HealthRecord(outcome.status_code < 500, outcome.latency_ms,
                                   outcome.status_code, "HTTP " \o Str(outcome.status_code))
           [] outcome.kind = "timeout" ->
                 HealthRecord(FALSE, outcome.latency_ms, NoStatus, "Timeout")
           [] outcome.kind = "connection" ->
                 HealthRecord(FALSE, outcome.latency_ms, NoStatus, "Connection refused")
           [] OTHER ->
                 HealthRecord(FALSE, outcome.latency_ms, NoStatus, Truncate(outcome.message, 60))

check_source(source_name, outcome) ==
    IF source_name \notin DOMAIN SOURCE_URLS
    THEN HealthRecord(FALSE, 0, NoStatus, "Unknown source")
    ELSE CASE outcome.kind = "response" ->
                 IF outcome.status_code = 999
                 THEN HealthRecord(TRUE, outcome.latency_ms, 999, "Reachable (bot-detection active)")
                 ELSE IF outcome.status_code < 400
                 THEN HealthRecord(TRUE, outcome.latency_ms, outcome.status_code, "OK")
                 ELSE HealthRecord(TRUE, outcome.latency_ms, outcome.status_code,
                                   "HTTP " \o Str(outcome.status_code))
           [] outcome.kind = "timeout" ->
                 HealthRecord(FALSE, outcome.latency_ms, NoStatus, "Timeout")
           [] outcome.kind = "connection" ->
                 HealthRecord(FALSE, outcome.latency_ms, NoStatus, "Connection refused")
           [] OTHER ->
                 HealthRecord(FALSE, outcome.latency_ms, NoStatus, Truncate(outcome.message, 60))

\* ThreadPoolExecutor(max_workers=min(len(sources), 8))
max_workers(n) == IF n < 8 THEN n ELSE 8

\* a task of the pool: state is "pending" (queued), "running", "done" (the
\* future is complete) or "collected" (as_completed has handed it over);
\* raised tells whether check_source left with an exception (message)
Probe(state, outcome, raised, message, record) ==
    [state |-> state, outcome |-> outcome, raised |-> raised, message |-> message,
     record |-> record]

NoRecord == HealthRecord(FALSE, 0, NoStatus, "")

PendingProbe == Probe("pending", NoOutcome, FALSE, "", NoRecord)

\* results: dict = {}
EmptyResults == [name \in {} |-> NoRecord]

\* results[source] = record
Put(map, source, record) ==
    [name \in DOMAIN map \cup {source} |-> IF name = source THEN record ELSE map[name]]

\* no health check called
NoHealthCheck ==
    /\ sources = <<>>
    /\ probes = <<>>
    /\ results = EmptyResults
    /\ health_pc = "idle"
    /\ written = <<>>

\* the Adzuna fields of the sidebar: left empty, a blank key, both filled in
CredentialPairs == {<<"", "">>, <<"id9", " ">>, <<"id9", "key9">>}

\* no matcher call, no adapter search and no health check going on
NothingElse ==
    /\ matched = NoMatch
    /\ NoSearch
    /\ adzuna = AdzunaScraper("", "")
    /\ CURL_CFFI_AVAILABLE = TRUE
    /\ NoHealthCheck
    /\ NoParse

\* ---------------------------- Spec: the store's functions called directly

\* two sightings of one posting (same url, every other column different),
\* and two postings scraped without a link
JobA  == Job("Analyst", "Acme", "Sydney", "https://x/1", "Seek", "d1", None, None, 0)
JobA2 == Job("Senior Analyst", "Bolt", "Perth", "https://x/1", "Jora", "d2", "$90k", "2d", 1)
JobE1 == Job("Analyst", "Acme", "Sydney", "", "LinkedIn", "d1", None, None, 0)
JobE2 == Job("Tester", "Bolt", "Sydney", "", "LinkedIn", "d3", None, None, 0)

StoreJobs == {JobA, JobA2, JobE1}
UrlLessJobs == {JobA, JobE1, JobE2}

RoleLists == {<<"Analyst">>, <<"Analyst", "Tester">>}
RunCounts == {<<0, 0>>, <<2, 1>>}

NoRun ==
    /\ src_i = 0
    /\ source_results = <<>>
    /\ source_errors = <<>>
    /\ new_count = 0
    /\ run_no = 0
    /\ run_start_jobs = <<>>
    /\ run_start_runs = <<>>
    /\ searched = <<>>

Init ==
    /\ EmptyStore
    /\ NoRun
    /\ pc = "idle"
    /\ roles = <<>>
    /\ match_type = "exact"
    /\ all_raw_jobs = <<>>
    /\ filtered = <<>>
    /\ NothingElse

SaveJobsOf(universe) ==
    /\ pc = "idle"
    /\ clock < MaxClock
    /\ \E jobs \in SeqsUpTo(universe, MaxLen) :
          \E faults \in SUBSET (1 .. Len(jobs)) : save_jobs(jobs, faults)
    /\ UNCHANGED <<pc, matchvars, runvars, matched, adaptervars, healthvars, parsevars>>

SaveJobs == SaveJobsOf(StoreJobs)

SaveUrlLessJobs == SaveJobsOf(UrlLessJobs)

LogRun ==
    /\ pc = "idle"
    /\ clock < MaxClock
    /\ \E rs \in RoleLists, c \in RunCounts, fault \in BOOLEAN :
          log_run(rs, c[1], c[2], fault)
    /\ UNCHANGED <<pc, matchvars, runvars, matched, adaptervars, healthvars, parsevars>>

ClearJobsOnly ==
    /\ pc = "idle"
    /\ \E fault \in BOOLEAN : clear_jobs_only(fault)
    /\ UNCHANGED <<pc, matchvars, runvars, matched, adaptervars, healthvars, parsevars>>

ClearAllJobs ==
    /\ pc = "idle"
    /\ \E fault \in BOOLEAN : clear_all_jobs(fault)
    /\ UNCHANGED <<pc, matchvars, runvars, matched, adaptervars, healthvars, parsevars>>

Next == SaveJobs \/ LogRun \/ ClearJobsOnly \/ ClearAllJobs

Spec == Init /\ [][Next]_vars

NextUrlLess == SaveUrlLessJobs \/ LogRun \/ ClearJobsOnly \/ ClearAllJobs

SpecUrlLess == Init /\ [][NextUrlLess]_vars

\* --------------------------------------- SpecFilter: filter_jobs applied

\* postings without a link that agree on title and company up to case (F2)
\* or up to surrounding blanks (F3), one that differs in title (F4), two
\* sightings of one link (F5, F6) and a title that matches no role (F7)
F1 == Job("Analyst", "Acme", "Sydney", "", "Seek", "d1", None, None, 0)
F2 == Job("ANALYST", "acme", "Perth", "", "Jora", "d2", "$90k", "2d", 1)
F3 == Job("Analyst ", "Acme", "Perth", "", "Jora", "d2", None, None, 1)
F4 == Job("Data Analyst", "Acme", "Sydney", "", "Seek", "d1", None, None, 0)
F5 == Job("Analyst", "Acme", "Sydney", "https://x/1", "Seek", "d1", None, None, 0)
F6 == Job("Senior Analyst", "Bolt", "Perth", "https://x/1", "Jora", "d2", None, None, 1)
F7 == Job("Warehouse Picker", "Acme", "Sydney", "", "Seek", "d1", None, None, 0)

RawJobs == {F1, F2, F3, F4, F5, F6, F7}

FilterRoleLists == {<<>>, <<"Analyst">>, <<"Tester", "analyst">>, <<"Analyst", "Data Analyst">>}

\* one source's answer to the role "Business Analyst"
S1 == Job("Business Analyst", "Acme", "Sydney", "https://x/11", "Seek", "d1", None, None, 0)
S2 == Job("Systems Analyst", "Bolt", "Perth", "https://x/12", "Seek", "d2", None, None, 0)
S3 == Job("Warehouse Picker", "Cargo", "Sydney", "https://x/13", "Seek", "d3", None, None, 0)

ScenarioJobs == {S1, S2, S3}

ScenarioRoles == <<"Business Analyst">>

InitFilter ==
    /\ EmptyStore
    /\ NoRun
    /\ pc = "input"
    /\ match_type \in {"exact", "similar"}
    /\ \/ roles \in FilterRoleLists /\ all_raw_jobs \in SeqsUpTo(RawJobs, MaxRaw)
       \/ roles = ScenarioRoles /\ all_raw_jobs \in SeqsUpTo(ScenarioJobs, MaxRaw)
    /\ filtered = <<>>
    /\ NothingElse

FilterJobs ==
    /\ pc = "input"
    /\ filtered' = filter_jobs(all_raw_jobs, roles, match_type)
    /\ pc' = "filtered"
    /\ UNCHANGED <<dbvars, roles, match_type, all_raw_jobs, runvars, matched, adaptervars, healthvars, parsevars>>

NextFilter == FilterJobs

SpecFilter == InitFilter /\ [][NextFilter]_vars

\* ------------- SpecFilterSeen: filter_jobs on postings that share a url

\* a posting that matches no role under the url of F5 and F6
F8 == Job("Warehouse Picker", "Cargo", "Sydney", "https://x/1", "Seek", "d3", None, None, 0)

SeenJobs == {F1, F5, F6, F8}

SeenRoleLists == {<<"Analyst">>, <<"Senior Analyst">>, <<"Tester", "Senior Analyst">>}

InitFilterSeen ==
    /\ EmptyStore
    /\ NoRun
    /\ pc = "input"
    /\ match_type \in {"exact", "similar"}
    /\ roles \in SeenRoleLists
    /\ all_raw_jobs \in SeqsUpTo(SeenJobs, MaxRaw)
    /\ filtered = <<>>
    /\ NothingElse

SpecFilterSeen == InitFilterSeen /\ [][NextFilter]_vars

\* ------------------------------ SpecRun: the "Run Now" block of app.py

\* the sources ticked in the sidebar, in the order of the loop
selected_sources == <<"Seek", "Adzuna", "LinkedIn">>

\* a second posting without a link that matches the role "Analyst"
JobE3 == Job("Data Analyst", "Bolt", "Perth", "", "Seek", "d4", None, None, 0)

\* what a search can hand back: jobs of RunJobs, or an exception
RunJobs == {JobA, JobE1, JobE2, JobE3}

LongError ==
    "HTTPSConnectionPool(host='www.seek.com.au', port=443): Max retries exceeded with url: /api/jobsearch/v5/search"

ErrorMessages == {"", "timed out", LongError}

\* line 606 calls scraper.search(roles, location=location), and
\* AdzunaScraper.search(self, roles) has no location parameter
AdzunaTypeError == "AdzunaScraper.search() got an unexpected keyword argument 'location'"

\* what a search of the run block did
Searched(source, raised, message, jobs) ==
    [source |-> source, raised |-> raised, message |-> message, jobs |-> jobs]

ErrorLimit == 80

RunInit ==
    /\ EmptyStore
    /\ NoRun
    /\ pc = "idle"
    /\ roles = <<"Analyst">>
    /\ match_type \in {"exact", "similar"}
    /\ all_raw_jobs = <<>>
    /\ filtered = <<>>
    /\ matched = NoMatch
    /\ NoSearch
    /\ \E c \in CredentialPairs : adzuna = AdzunaScraper(c[1], c[2])
    /\ CURL_CFFI_AVAILABLE = TRUE
    /\ NoHealthCheck
    /\ NoParse

\* if run_clicked and roles and selected_sources:
RunClicked ==
    /\ pc = "idle"
    /\ run_no < MaxRuns
    /\ roles # <<>> /\ selected_sources # <<>>
    /\ pc' = "search"
    /\ src_i' = 1
    /\ all_raw_jobs' = <<>>
    /\ source_results' = <<>>
    /\ source_errors' = <<>>
    /\ filtered' = <<>>
    /\ new_count' = 0
    /\ searched' = <<>>
    /\ run_no' = run_no + 1
    /\ run_start_jobs' = jobs_table
    /\ run_start_runs' = scrape_runs
    /\ UNCHANGED <<dbvars, roles, match_type, matched, adaptervars, healthvars, parsevars>>

\* faulty variant: an exception of a search ends the loop over the sources
Search_StopAtError ==
    /\ pc = "search"
    /\ LET source == selected_sources[src_i] IN
       \/ /\ source # "Adzuna"
          /\ \E jobs \in SeqsUpTo(RunJobs, MaxFound) :
                /\ all_raw_jobs' = all_raw_jobs \o jobs
                /\ source_results' = Append(source_results, <<source, Len(jobs)>>)
                /\ source_errors' = source_errors
                /\ searched' = Append(searched, Searched(source, FALSE, "", jobs))
                /\ pc' = IF src_i = Len(selected_sources) THEN "filter" ELSE "search"
       \/ \E e \in (IF source = "Adzuna" THEN {AdzunaTypeError} ELSE ErrorMessages) :
             /\ all_raw_jobs' = all_raw_jobs
             /\ source_results' = Append(source_results, <<source, 0>>)
             /\ source_errors' = Append(source_errors, <<source, Truncate(e, ErrorLimit)>>)
             /\ searched' = Append(searched, Searched(source, TRUE, e, <<>>))
             /\ pc' = "filter"
    /\ src_i' = src_i + 1
    /\ UNCHANGED <<dbvars, roles, match_type, filtered, new_count, run_no, run_start_jobs,
                   run_start_runs, matched, adaptervars, healthvars, parsevars>>

\* one iteration of the loop over selected_sources: the search returns jobs,
\* or raises and the except clause records the error; the call of the Adzuna
\* adapter raises TypeError before the body of its search runs
Search ==
    /\ pc = "search"
    /\ LET source == selected_sources[src_i] IN
       \/ /\ source # "Adzuna"
          /\ \E jobs \in SeqsUpTo(RunJobs, MaxFound) :
                /\ all_raw_jobs' = all_raw_jobs \o jobs
                /\ source_results' = Append(source_results, <<source, Len(jobs)>>)
                /\ source_errors' = source_errors
                /\ searched' = Append(searched, Searched(source, FALSE, "", jobs))
       \/ \E e \in (IF source = "Adzuna" THEN {AdzunaTypeError} ELSE ErrorMessages) :
             /\ all_raw_jobs' = all_raw_jobs
             /\ source_results' = Append(source_results, <<source, 0>>)
             /\ source_errors' = Append(source_errors, <<source, Truncate(e, ErrorLimit)>>)
             /\ searched' = Append(searched, Searched(source, TRUE, e, <<>>))
    /\ src_i' = src_i + 1
    /\ pc' = IF src_i = Len(selected_sources) THEN "filter" ELSE "search"
    /\ UNCHANGED <<dbvars, roles, match_type, filtered, new_count, run_no, run_start_jobs,
                   run_start_runs, matched, adaptervars, healthvars, parsevars>>

\* filtered = filter_jobs(all_raw_jobs, roles, match_type)
RunFilter ==
    /\ pc = "filter"
    /\ filtered' = filter_jobs(all_raw_jobs, roles, match_type)
    /\ pc' = "clear"
    /\ UNCHANGED <<dbvars, roles, match_type, all_raw_jobs, runvars, matched, adaptervars, healthvars, parsevars>>

\* clear_jobs_only(); an exception ends the script
RunClear ==
    /\ pc = "clear"
    /\ \E fault \in BOOLEAN :
          /\ clear_jobs_only(fault)
          /\ pc' = IF fault THEN "aborted" ELSE "save"
    /\ UNCHANGED <<matchvars, runvars, matched, adaptervars, healthvars, parsevars>>

\* total_saved, new_count = save_jobs(filtered)
RunSave ==
    /\ pc = "save"
    /\ \E faults \in SUBSET (1 .. Len(filtered)) : save_jobs(filtered, faults)
    /\ new_count' = op'.ret[2]
    /\ pc' = "log"
    /\ UNCHANGED <<matchvars, src_i, source_results, source_errors, run_no, run_start_jobs,
                   run_start_runs, searched, matched, adaptervars, healthvars, parsevars>>

\* log_run(roles, len(filtered), new_count); an exception ends the script
RunLog ==
    /\ pc = "log"
    /\ \E fault \in BOOLEAN :
          /\ log_run(roles, Len(filtered), new_count, fault)
          /\ pc' = IF fault THEN "aborted" ELSE "done"
    /\ UNCHANGED <<matchvars, runvars, matched, adaptervars, healthvars, parsevars>>

\* the script ends (after the summary, or with the exception shown); the
\* locals of the run block are gone on the next execution
RunEnd ==
    /\ pc \in {"done", "aborted"}
    /\ pc' = "idle"
    /\ all_raw_jobs' = <<>>
    /\ filtered' = <<>>
    /\ src_i' = 0
    /\ source_results' = <<>>
    /\ source_errors' = <<>>
    /\ new_count' = 0
    /\ searched' = <<>>
    /\ UNCHANGED <<dbvars, roles, match_type, run_no, run_start_jobs, run_start_runs,
                   matched, adaptervars, healthvars, parsevars>>

RunNext ==
    RunClicked \/ Search \/ RunFilter \/ RunClear \/ RunSave \/ RunLog \/ RunEnd \/ ClearAllJobs

SpecRun == RunInit /\ [][RunNext]_vars

\* ------------------------------------- SpecMatch: matches_role applied

\* titles with a role in them, an acronym (bare and with blanks around it), a
\* single letter, inserted words, a related title, words of the role in
\* another order, a keyword in the plural, a role without its level word,
\* and titles that share nothing with any role
MatchTitles ==
    {"Senior Project Manager", "PM", " pm ", "A", "Project Risk Manager | Defence",
     "Business Analyst", "Systems Analyst", "Warehouse Picker", "Entry level data clerk",
     "Project Coordinator", "Data migration", "Project Managers", "Data Entry Clerk"}

\* roles that are keys of RELATED_ROLES, a role that overlaps keys, roles
\* found by neither lookup (with and without a level word), and a role that
\* is a level word and nothing else
MatchRoles ==
    {"Project Manager", "Product Manager", "Business Analyst", "Analyst", "Data Entry",
     "Project Director", "Senior Data Entry", "Lead"}

InitMatch ==
    /\ EmptyStore
    /\ NoRun
    /\ pc = "match"
    /\ roles = <<>>
    /\ match_type = "exact"
    /\ all_raw_jobs = <<>>
    /\ filtered = <<>>
    /\ \E t \in MatchTitles, r \in MatchRoles, m \in {"exact", "similar"} :
          matched = [job_title |-> t, role |-> r, mode |-> m, result |-> FALSE]
    /\ NoSearch
    /\ adzuna = AdzunaScraper("", "")
    /\ CURL_CFFI_AVAILABLE = TRUE
    /\ NoHealthCheck
    /\ NoParse

MatchesRole ==
    /\ pc = "match"
    /\ matched' = [matched EXCEPT
                      !.result = matches_role(matched.job_title, matched.role, matched.mode)]
    /\ pc' = "matched"
    /\ UNCHANGED <<dbvars, matchvars, runvars, adaptervars, healthvars, parsevars>>

NextMatch == MatchesRole

SpecMatch == InitMatch /\ [][NextMatch]_vars

\* the loop over the sources alone: one run, up to the filter step
SearchLoopNext == RunClicked \/ Search \/ RunFilter

SpecSearchLoop == RunInit /\ [][SearchLoopNext]_vars

\* ----------------------------- SpecAdapter: the search of one adapter

AdapterRoleLists == {<<>>, <<"Analyst">>, <<"Analyst", "Tester">>}

AdapterJobs == {JobA, JobE2}

\* statuses other than 200: blocked, server error, LinkedIn's bot detection
FailStatuses == {403, 500, 999}

Fetches ==
    {Fetch("transport", NoStatus, "garbled", <<>>)}
    \cup {Fetch("response", c, "garbled", <<>>) : c \in FailStatuses}
    \cup {Fetch("response", 200, p, <<>>) : p \in {"garbled", "scalar"}}
    \cup {Fetch("response", 200, "listing", jobs) : jobs \in SeqsUpTo(AdapterJobs, MaxFound)}

InitAdapter ==
    /\ EmptyStore
    /\ NoRun
    /\ pc = "adapter"
    /\ roles \in AdapterRoleLists
    /\ match_type = "exact"
    /\ all_raw_jobs = <<>>
    /\ filtered = <<>>
    /\ matched = NoMatch
    /\ \/ /\ scraper = "Adzuna"
          /\ \E c \in CredentialPairs : adzuna = AdzunaScraper(c[1], c[2])
          /\ CURL_CFFI_AVAILABLE = TRUE
       \/ /\ scraper = "Seek"
          /\ adzuna = AdzunaScraper("", "")
          /\ CURL_CFFI_AVAILABLE \in BOOLEAN
       \/ /\ scraper \in {"LinkedIn", "GradConnection"}
          /\ adzuna = AdzunaScraper("", "")
          /\ CURL_CFFI_AVAILABLE = TRUE
    /\ role_i = 0
    /\ all_jobs = <<>>
    /\ fetched = <<>>
    /\ events = <<>>
    /\ search_pc = "idle"
    /\ NoHealthCheck
    /\ NoParse

\* search(roles) is called: the early return, or all_jobs = [] and the loop
SearchCall ==
    /\ search_pc = "idle"
    /\ all_jobs' = <<>>
    /\ IF Disabled(scraper)
       THEN search_pc' = "returned" /\ role_i' = role_i
       ELSE search_pc' = "loop" /\ role_i' = 1
    /\ UNCHANGED <<dbvars, pc, matchvars, runvars, matched, scraper, adzuna,
                   CURL_CFFI_AVAILABLE, fetched, events, healthvars, parsevars>>

\* one pass of "for role in roles"
SearchRole ==
    /\ search_pc = "loop"
    /\ role_i <= Len(roles)
    /\ \E fetch \in Fetches :
          LET r == search_iteration(scraper, all_jobs, fetch)
          IN  /\ all_jobs' = r.all_jobs
              /\ events' = events \o r.events
              /\ fetched' = Append(fetched, fetch)
              /\ search_pc' = IF r.raised THEN "raised" ELSE "loop"
    /\ role_i' = role_i + 1
    /\ UNCHANGED <<dbvars, pc, matchvars, runvars, matched, scraper, adzuna,
                   CURL_CFFI_AVAILABLE, healthvars, parsevars>>

\* return all_jobs
SearchReturn ==
    /\ search_pc = "loop"
    /\ role_i > Len(roles)
    /\ search_pc' = "returned"
    /\ UNCHANGED <<dbvars, pc, matchvars, runvars, matched, scraper, adzuna,
                   CURL_CFFI_AVAILABLE, role_i, all_jobs, fetched, events, healthvars, parsevars>>

NextAdapter == SearchCall \/ SearchRole \/ SearchReturn

SpecAdapter == InitAdapter /\ [][NextAdapter]_vars

\* --------------------------------------- SpecProbe: check_source applied

ProbeNames == DOMAIN SOURCE_URLS \cup {"Jobz", ""}

ProbeStatuses == {200, 204, 301, 399, 400, 404, 429, 500, 503, 999}

ProbeOutcomes ==
    {Outcome("response", c, "", ms) : c \in ProbeStatuses, ms \in {0, 35}}
    \cup {Outcome("timeout", NoStatus, "", 10000)}
    \cup {Outcome("connection", NoStatus, "", ms) : ms \in {0, 35}}
    \cup {Outcome("exception", NoStatus, m, 35) : m \in {"Exceeded 30 redirects.", LongError}}

\* an unknown source is answered before any request is made
OutcomesFor(name, outcomes) == IF name \in DOMAIN SOURCE_URLS THEN outcomes ELSE {NoOutcome}

HealthIdle ==
    /\ EmptyStore
    /\ NoRun
    /\ pc = "health"
    /\ roles = <<>>
    /\ match_type = "exact"
    /\ all_raw_jobs = <<>>
    /\ filtered = <<>>
    /\ matched = NoMatch
    /\ NoSearch
    /\ adzuna = AdzunaScraper("", "")
    /\ CURL_CFFI_AVAILABLE = TRUE
    /\ results = EmptyResults
    /\ written = <<>>
    /\ NoParse

InitProbe ==
    /\ HealthIdle
    /\ \E name \in ProbeNames : sources = <<name>>
    /\ probes = <<PendingProbe>>
    /\ health_pc = "probe"

CheckSource ==
    /\ health_pc = "probe"
    /\ \E o \in OutcomesFor(sources[1], ProbeOutcomes) :
          probes' = <<Probe("done", o, FALSE, "", check_source(sources[1], o))>>
    /\ health_pc' = "probed"
    /\ UNCHANGED <<dbvars, pc, matchvars, runvars, matched, adaptervars, parsevars, sources, results,
                   written>>

NextProbe == CheckSource

SpecProbe == InitProbe /\ [][NextProbe]_vars

\* ------------------------------- SpecHealth: check_all_sources and its pool

\* a known source and an unknown one
HealthNames == {"Seek", "Jobz"}

PoolOutcomes ==
    {Outcome("response", 200, "", 35), Outcome("response", 999, "", 35),
     Outcome("timeout", NoStatus, "", 10000)}

\* the message of an exception that leaves check_source
ProbeError == "probe failed"

InitHealth ==
    /\ HealthIdle
    /\ sources \in SeqsUpTo(HealthNames, MaxSources)
    /\ probes = <<>>
    /\ health_pc = "idle"

\* check_all_sources(sources) is called: ThreadPoolExecutor raises ValueError
\* when max_workers is 0; else every source is submitted
CheckAllSources ==
    /\ health_pc = "idle"
    /\ results' = EmptyResults
    /\ written' = <<>>
    /\ IF max_workers(Len(sources)) <= 0
       THEN health_pc' = "raised" /\ probes' = probes
       ELSE health_pc' = "running" /\ probes' = [i \in DOMAIN sources |-> PendingProbe]
    /\ UNCHANGED <<dbvars, pc, matchvars, runvars, matched, adaptervars, parsevars, sources>>

Running == {i \in DOMAIN probes : probes[i].state = "running"}

\* a free worker takes the oldest queued task
ProbeStart ==
    /\ health_pc = "running"
    /\ Cardinality(Running) < max_workers(Len(sources))
    /\ \E i \in DOMAIN probes :
          /\ probes[i].state = "pending"
          /\ \A j \in 1 .. (i - 1) : probes[j].state # "pending"
          /\ probes' = [probes EXCEPT ![i].state = "running"]
    /\ UNCHANGED <<dbvars, pc, matchvars, runvars, matched, adaptervars, parsevars, sources, results,
                   health_pc, written>>

\* check_source(source) returns its record, or leaves with an exception
ProbeFinish ==
    /\ health_pc = "running"
    /\ \E i \in Running :
          \/ \E o \in OutcomesFor(sources[i], PoolOutcomes) :
                probes' = [probes EXCEPT
                              ![i] = Probe("done", o, FALSE, "", check_source(sources[i], o))]
          \/ probes' = [probes EXCEPT ![i] = Probe("done", NoOutcome, TRUE, ProbeError, NoRecord)]
    /\ UNCHANGED <<dbvars, pc, matchvars, runvars, matched, adaptervars, parsevars, sources, results,
                   health_pc, written>>

\* faulty variant: every result stored under the name of the first source
Collect_FirstKey ==
    /\ health_pc = "running"
    /\ \E i \in DOMAIN probes :
          /\ probes[i].state = "done"
          /\ probes' = [probes EXCEPT ![i].state = "collected"]
          /\ results' = Put(results, sources[1],
                            IF probes[i].raised
                            THEN HealthRecord(FALSE, 0, NoStatus, Truncate(probes[i].message, 60))
                            ELSE probes[i].record)
          /\ written' = Append(written, sources[1])
    /\ UNCHANGED <<dbvars, pc, matchvars, runvars, matched, adaptervars, parsevars, sources, health_pc>>

\* as_completed hands over a complete future: results[source] is its
\* result, or the offline record of the except clause
Collect ==
    /\ health_pc = "running"
    /\ \E i \in DOMAIN probes :
          /\ probes[i].state = "done"
          /\ probes' = [probes EXCEPT ![i].state = "collected"]
          /\ results' = Put(results, sources[i],
                            IF probes[i].raised
                            THEN HealthRecord(FALSE, 0, NoStatus, Truncate(probes[i].message, 60))
                            ELSE probes[i].record)
          /\ written' = Append(written, sources[i])
    /\ UNCHANGED <<dbvars, pc, matchvars, runvars, matched, adaptervars, parsevars, sources, health_pc>>

\* return results
CheckAllReturn ==
    /\ health_pc = "running"
    /\ \A i \in DOMAIN probes : probes[i].state = "collected"
    /\ health_pc' = "returned"
    /\ UNCHANGED <<dbvars, pc, matchvars, runvars, matched, adaptervars, parsevars, sources, probes,
                   results, written>>

NextHealth == CheckAllSources \/ ProbeStart \/ ProbeFinish \/ Collect \/ CheckAllReturn

SpecHealth == InitHealth /\ [][NextHealth]_vars

\* the pool's threads and the calling thread keep running, and every probe
\* returns or times out (requests.get has timeout=_TIMEOUT)
SpecHealthFair ==
    /\ SpecHealth
    /\ WF_vars(CheckAllSources)
    /\ WF_vars(ProbeStart)
    /\ WF_vars(ProbeFinish)
    /\ WF_vars(Collect)
    /\ WF_vars(CheckAllReturn)

\* ------------------------------ SpecCards: the card detection of a page

\* one element for each selector strategy of the two HTML adapters (the
\* first is found by the second strategy too), and one none of them finds
PageElements ==
    {Element("div", "campaign-listing-box", TRUE, TRUE, "section"),
     Element("div", "new-listing-box", FALSE, TRUE, "div"),
     Element("div", "Job-Card featured", FALSE, FALSE, "div"),
     Element("article", "job-listing", TRUE, TRUE, "main"),
     Element("div", "panel", TRUE, TRUE, "section"),
     Element("div", "base-card", TRUE, TRUE, "li"),
     Element("li", "job-search-card", TRUE, TRUE, "ul"),
     Element("span", "badge", FALSE, FALSE, "div")}

ParseIdle ==
    /\ EmptyStore
    /\ NoRun
    /\ pc = "parse"
    /\ roles = <<>>
    /\ match_type = "exact"
    /\ all_raw_jobs = <<>>
    /\ filtered = <<>>
    /\ matched = NoMatch
    /\ role_i = 0
    /\ all_jobs = <<>>
    /\ fetched = <<>>
    /\ events = <<>>
    /\ search_pc = "idle"
    /\ adzuna = AdzunaScraper("id9", "key9")
    /\ CURL_CFFI_AVAILABLE = TRUE
    /\ NoHealthCheck

InitCards ==
    /\ ParseIdle
    /\ scraper \in {"GradConnection", "LinkedIn"}
    /\ soup \in SeqsUpTo(PageElements, MaxElements)
    /\ job_cards = <<>>
    /\ items = <<>>
    /\ parsed = <<>>
    /\ parse_pc = "soup"

\* _parse_html(soup) chooses its containers
FindCards ==
    /\ parse_pc = "soup"
    /\ job_cards' = find_job_cards(scraper, soup)
    /\ parse_pc' = "cards"
    /\ UNCHANGED <<dbvars, pc, matchvars, runvars, matched, adaptervars, healthvars,
                   soup, items, parsed>>

NextCards == FindCards

SpecCards == InitCards /\ [][NextCards]_vars

\* --------------------------- SpecItems: the items of a payload extracted

Strings(kinds, values) ==
    {Field(k, "") : k \in kinds} \cup {Field("value", v) : v \in values}

\* the items of an Adzuna response: each key absent, null, or with a value
AdzunaItems ==
    [title : Strings({"absent", "null"}, {"", "Analyst"}),
     company : {[kind |-> k, display_name |-> Field("absent", "")] : k \in {"absent", "null"}}
               \cup [kind : {"object"},
                     display_name : Strings({"absent", "null"}, {"Acme"})],
     location : {[kind |-> k, area |-> Field("absent", <<>>)] : k \in {"absent", "null"}}
                \cup [kind : {"object"},
                      area : {Field("absent", <<>>), Field("null", <<>>),
                              Field("value", <<>>),
                              Field("value", <<"Australia", "NSW", "Sydney">>)}],
     description : Strings({"absent", "null"}, {"d1"})]

\* the cards of a GradConnection page: each element found or not
GradConnectionCards ==
    [title_el : Strings({"absent"}, {"", "Graduate Analyst"}),
     href : Strings({"absent"}, {"/jobs/1", "https://x/2"}),
     company_el : {Field("absent", <<>>)}
                  \cup {Field("value", t) : t \in {<<>>, <<"Graduate Analyst">>,
                                                   <<"Graduate Analyst", "Acme">>, <<"Acme">>}},
     location_el : Strings({"absent"}, {"", "Sydney"}),
     discipline_el : Strings({"absent"}, {"IT"})]

InitItems ==
    /\ ParseIdle
    /\ soup = <<>>
    /\ job_cards = <<>>
    /\ \/ scraper = "Adzuna" /\ items \in SeqsUpTo(AdzunaItems, MaxFound)
       \/ scraper = "GradConnection" /\ items \in SeqsUpTo(GradConnectionCards, MaxFound)
    /\ parsed = <<>>
    /\ parse_pc = "items"

\* the loop over the items builds the jobs list
ParseItems ==
    /\ parse_pc = "items"
    /\ parsed' = parse_items(scraper, items)
    /\ parse_pc' = "parsed"
    /\ UNCHANGED <<dbvars, pc, matchvars, runvars, matched, adaptervars, healthvars,
                   soup, job_cards, items>>

NextItems == ParseItems

SpecItems == InitItems /\ [][NextItems]_vars

\* ======================================================= claims C1 .. C10

NonEmptyUrl(u) == u # None /\ u # ""

RowsWithUrl(table, u) == {i \in DOMAIN table : table[i].url = u}

\* C1: in every state reached by save_jobs, clear_jobs_only, clear_all_jobs
\* and log_run calls, the jobs table holds at most one row per non-empty url.
C1_OneRowPerUrl ==
    \A i, j \in DOMAIN jobs_table :
        (NonEmptyUrl(jobs_table[i].url) /\ jobs_table[i].url = jobs_table[j].url) => i = j

\* a save_jobs call tried to insert a second, different sighting of a stored url
C1_Witness ==
    /\ op.name = "save_jobs"
    /\ \E k \in DOMAIN op.jobs \ op.faults, i \in DOMAIN pre_jobs :
          /\ NonEmptyUrl(op.jobs[k].url)
          /\ pre_jobs[i].url = op.jobs[k].url
          /\ pre_jobs[i].title # op.jobs[k].title
    /\ Cardinality(RowsWithUrl(jobs_table, JobA.url)) = 1

\* C2 (as claimed): save_jobs returns (len(jobs), number of rows added), and
\* save_jobs([J, J]) for a J with a non-empty url not yet stored returns
\* new_count = 1 with exactly one row stored for that url.
C2_Original ==
    op.name = "save_jobs" =>
        /\ op.ret = <<Len(op.jobs), Len(jobs_table) - Len(pre_jobs)>>
        /\ (/\ Len(op.jobs) = 2
            /\ op.jobs[1] = op.jobs[2]
            /\ NonEmptyUrl(op.jobs[1].url)
            /\ RowsWithUrl(pre_jobs, op.jobs[1].url) = {})
           => /\ op.ret[2] = 1
              /\ Cardinality(RowsWithUrl(jobs_table, op.jobs[1].url)) = 1

\* C3 (as claimed): a save_jobs call that repeats the list of the save_jobs
\* call before it returns new_count = 0 and leaves every stored row, and so
\* every first_seen, as it was.
C3_Original ==
    [][(/\ op.name = "save_jobs"
        /\ op'.name = "save_jobs"
        /\ op'.jobs = op.jobs)
       => (op'.ret[2] = 0 /\ jobs_table' = jobs_table)]_vars

\* C4 (as claimed): save_jobs inserts one row for each job of a list of jobs
\* that all have an empty url and differ pairwise in title or company,
\* whatever url-less rows are stored already.
C4_Original ==
    (/\ op.name = "save_jobs"
     /\ op.faults = {}
     /\ \A k \in DOMAIN op.jobs : op.jobs[k].url = ""
     /\ \A k, l \in DOMAIN op.jobs :
           k # l => (op.jobs[k].title # op.jobs[l].title
                     \/ op.jobs[k].company # op.jobs[l].company))
    => /\ op.ret[2] = Len(op.jobs)
       /\ Len(jobs_table) = Len(pre_jobs) + Len(op.jobs)

\* C5 (as claimed): a write error while save_jobs inserts a row leaves
\* save_jobs as an exception.
C5_Original == (op.name = "save_jobs" /\ op.faults # {}) => op.raised

\* C6: save_jobs of a job whose non-empty url is already stored leaves the
\* stored row as it was, column by column, and adds no row for that url.
C6_StoredRowUntouched ==
    op.name = "save_jobs" =>
        \A i \in DOMAIN pre_jobs :
            (/\ NonEmptyUrl(pre_jobs[i].url)
             /\ \E k \in DOMAIN op.jobs : op.jobs[k].url = pre_jobs[i].url)
            => /\ i \in DOMAIN jobs_table
               /\ jobs_table[i] = pre_jobs[i]
               /\ RowsWithUrl(jobs_table, pre_jobs[i].url) = {i}

\* the later sighting differs from the stored row in every other column
C6_Witness ==
    /\ op.name = "save_jobs"
    /\ \E k \in DOMAIN op.jobs \ op.faults, i \in DOMAIN pre_jobs :
          /\ NonEmptyUrl(op.jobs[k].url)
          /\ pre_jobs[i].url = op.jobs[k].url
          /\ pre_jobs[i].title # op.jobs[k].title
          /\ pre_jobs[i].company # op.jobs[k].company
          /\ pre_jobs[i].location # op.jobs[k].location
          /\ pre_jobs[i].salary # op.jobs[k].salary
          /\ pre_jobs[i].date_posted # op.jobs[k].date_posted
          /\ pre_jobs[i].description # op.jobs[k].description
          /\ pre_jobs[i].scraped_at # op.jobs[k].scraped_at
          /\ pre_jobs[i].first_seen # clock - 1

\* C8: log_run appends exactly one scrape_runs row carrying its arguments
\* and leaves the earlier rows and the jobs table unchanged; a write
\* failure leaves log_run as an exception.
C8_LogRun ==
    op.name = "log_run" =>
        /\ op.raised <=> op.faults # {}
        /\ jobs_table = pre_jobs
        /\ ~op.raised =>
              /\ Len(scrape_runs) = Len(pre_runs) + 1
              /\ SubSeq(scrape_runs, 1, Len(pre_runs)) = pre_runs
              /\ scrape_runs[Len(scrape_runs)].jobs_found = op.jobs_found
              /\ scrape_runs[Len(scrape_runs)].jobs_new = op.jobs_new
              /\ \/ op.roles = <<"Analyst">>
                    /\ scrape_runs[Len(scrape_runs)].roles = "Analyst"
                 \/ op.roles = <<"Analyst", "Tester">>
                    /\ scrape_runs[Len(scrape_runs)].roles = "Analyst, Tester"

\* log_run with two roles appended a row to a history that held one already
C8_Witness ==
    /\ op.name = "log_run"
    /\ ~op.raised
    /\ Len(op.roles) = 2
    /\ pre_runs # <<>>
    /\ Len(scrape_runs) = Len(pre_runs) + 1
    /\ scrape_runs[Len(scrape_runs)].roles = "Analyst, Tester"

\* C9: clear_jobs_only removes every jobs row and leaves scrape_runs
\* unchanged; clear_all_jobs removes every row of both tables.
C9_Clear ==
    /\ (op.name = "clear_jobs_only" /\ ~op.raised)
          => (jobs_table = <<>> /\ scrape_runs = pre_runs)
    /\ (op.name = "clear_all_jobs" /\ ~op.raised)
          => (jobs_table = <<>> /\ scrape_runs = <<>>)

\* clear_jobs_only ran on a store holding jobs and run history
C9_Witness ==
    /\ op.name = "clear_jobs_only"
    /\ ~op.raised
    /\ pre_jobs # <<>>
    /\ pre_runs # <<>>
    /\ jobs_table = <<>>
    /\ scrape_runs # <<>>

\* the last row of scrape_runs: what the run that just completed recorded
LastRun == scrape_runs[Len(scrape_runs)]

StoredUrls(table) == {table[i].url : i \in DOMAIN table}

\* C7 (as claimed): when a run completes, a job whose url an earlier run
\* stored and which this run sighted again is not counted in the recorded
\* jobs_new, and its row has the first_seen it had before this run.
C7_Original ==
    pc = "done" =>
        /\ LastRun.jobs_new <=
              Cardinality({k \in DOMAIN filtered :
                              ~(/\ NonEmptyUrl(filtered[k].url)
                                /\ filtered[k].url \in StoredUrls(run_start_jobs))})
        /\ \A i \in DOMAIN run_start_jobs :
              (/\ NonEmptyUrl(run_start_jobs[i].url)
               /\ \E k \in DOMAIN filtered : filtered[k].url = run_start_jobs[i].url)
              => \E j \in DOMAIN jobs_table :
                    /\ jobs_table[j].url = run_start_jobs[i].url
                    /\ jobs_table[j].first_seen = run_start_jobs[i].first_seen

\* job j of the input matches at least one of the roles
Matching(j) == \E r \in DOMAIN roles : matches_role(all_raw_jobs[j].title, roles[r], match_type)

\* the input positions filter_jobs keeps when Key decides "same posting":
\* a matching job with no earlier matching job of the same key
Kept(Key(_)) ==
    {j \in DOMAIN all_raw_jobs :
        /\ Matching(j)
        /\ \A i \in 1 .. (j - 1) :
              ~(Key(all_raw_jobs[i]) = Key(all_raw_jobs[j]) /\ Matching(i))}

RECURSIVE Pick(_, _, _)
Pick(seq, S, i) ==
    IF i > Len(seq) THEN <<>>
    ELSE (IF i \in S THEN <<seq[i]>> ELSE <<>>) \o Pick(seq, S, i + 1)

\* the key as claimed: lowercase only
C10_ClaimedKey(job) ==
    IF job.url # "" THEN job.url ELSE Lower(job.title) \o "|" \o Lower(job.company)

\* the key as amended: lowercase, and blanks around title and company removed
C10_AmendedKey(job) ==
    IF job.url # "" THEN job.url
    ELSE RStrip(LStrip(Lower(job.title))) \o "|" \o RStrip(LStrip(Lower(job.company)))

\* C10 (as claimed): filter_jobs keeps exactly the matching jobs with no
\* earlier matching job of the same key, the key being the url when
\* non-empty and otherwise lowercase(title) + "|" + lowercase(company).
C10_Original == pc = "filtered" => filtered = Pick(all_raw_jobs, Kept(C10_ClaimedKey), 1)

\* C10 (amended): the same, with the fallback key built from title and
\* company lowercased and stripped of surrounding whitespace; the key is
\* never the empty string.
C10_DedupKey ==
    pc = "filtered" =>
        /\ filtered = Pick(all_raw_jobs, Kept(C10_AmendedKey), 1)
        /\ \A j \in DOMAIN all_raw_jobs : dedup_key(all_raw_jobs[j]) # ""

\* three matching jobs without a url: the second equals the first in title
\* and company up to case or blanks but differs elsewhere and is dropped,
\* the third differs in title and is kept
C10_Witness ==
    /\ pc = "filtered"
    /\ Len(all_raw_jobs) = 3
    /\ \A j \in 1 .. 3 : all_raw_jobs[j].url = "" /\ Matching(j)
    /\ all_raw_jobs[1].title # all_raw_jobs[2].title
    /\ all_raw_jobs[1].description # all_raw_jobs[2].description
    /\ filtered = <<all_raw_jobs[1], all_raw_jobs[3]>>

\* ====================================================== claims C11 .. C20

\* S is the set of input positions a pass in input order includes: a
\* position is in S exactly when its job matches a role and no earlier
\* position of S has the same dedup key
C11_Included(S, m) ==
    \A j \in DOMAIN all_raw_jobs :
        j \in S <=> /\ m[j]
                    /\ \A i \in 1 .. (j - 1) :
                          i \in S => dedup_key(all_raw_jobs[i]) # dedup_key(all_raw_jobs[j])

\* C11: filter_jobs returns the jobs at the included positions in input
\* order (a job is included exactly when its title matches at least one role
\* and no earlier included job has its dedup key), no job twice, and the
\* empty list when there is no role.
C11_FilterJobs ==
    pc = "filtered" =>
        /\ \E m \in {[j \in DOMAIN all_raw_jobs |-> Matching(j)]} :
              \E S \in SUBSET DOMAIN all_raw_jobs :
                 C11_Included(S, m) /\ filtered = Pick(all_raw_jobs, S, 1)
        /\ \A a, b \in DOMAIN filtered : a # b => filtered[a] # filtered[b]
        /\ roles = <<>> => filtered = <<>>

\* a job that matches both roles is kept once, its second sighting and a
\* job that matches no role are left out
C11_Witness ==
    /\ pc = "filtered"
    /\ Len(roles) = 2
    /\ Len(all_raw_jobs) = 3
    /\ \A r \in DOMAIN roles : matches_role(all_raw_jobs[1].title, roles[r], match_type)
    /\ ~Matching(2)
    /\ all_raw_jobs[3] = all_raw_jobs[1]
    /\ filtered = <<all_raw_jobs[1]>>

\* the acronym of a role: the first letters of its words
C12_Acronym(role_text) == Initials(Split(role_text))

\* the two rules of exact mode on title and role as Fold leaves them
C12_ExactRules(Fold(_)) ==
    \/ Contains(Fold(matched.job_title), Fold(matched.role))
    \/ /\ Fold(matched.job_title) = C12_Acronym(Fold(matched.role))
       /\ Len(C12_Acronym(Fold(matched.role))) >= 2

C12_LowerStrip(text) == RStrip(LStrip(Lower(text)))

C12_Examples ==
    /\ (matched.job_title = "Senior Project Manager" /\ matched.role = "Project Manager")
          => matched.result
    /\ (matched.job_title = "PM" /\ matched.role \in {"Project Manager", "Product Manager"})
          => matched.result
    /\ (matched.job_title = "Project Risk Manager | Defence" /\ matched.role = "Project Manager")
          => ~matched.result

C13_SignificantWords(role_text) ==
    {Split(Lower(role_text))[i] : i \in {k \in DOMAIN Split(Lower(role_text)) :
                                            Len(Split(Lower(role_text))[k]) >= 4}}

\* C13: in similar mode, a role with at least one word of length >= 4 all of
\* whose such words occur in the lower-cased title is matched; "Project Risk
\* Manager | Defence" matches "Project Manager".
C13_AllSignificantWords ==
    (pc = "matched" /\ matched.mode = "similar") =>
        /\ (/\ C13_SignificantWords(matched.role) # {}
            /\ \A w \in C13_SignificantWords(matched.role) :
                  Contains(Lower(matched.job_title), w))
           => matched.result
        /\ (matched.job_title = "Project Risk Manager | Defence"
            /\ matched.role = "Project Manager") => matched.result

\* the words of the role occur in the title in another order, with other
\* words between them, and the title has no keyword and no related title
C13_Witness ==
    /\ pc = "matched"
    /\ matched.mode = "similar"
    /\ matched.job_title = "Entry level data clerk"
    /\ matched.role = "Data Entry"
    /\ C13_SignificantWords(matched.role) = {"data", "entry"}
    /\ ~Contains(Lower(matched.job_title), Lower(matched.role))
    /\ matched.result

\* the five rules on a title t and a role r, both lower-cased and stripped
C14_Substring(t, r) == Contains(t, r)

C14_Abbreviation(t, r) == Len(C12_Acronym(r)) >= 2 /\ t = C12_Acronym(r)

C14_RelatedTitle(t, r) ==
    \E i \in DOMAIN get_related_roles(r) :
        Contains(t, C12_LowerStrip(get_related_roles(r)[i]))

C14_AllWords(t, r) ==
    C13_SignificantWords(r) # {} /\ \A w \in C13_SignificantWords(r) : Contains(t, w)

C14_PartialWord(t, r) ==
    /\ \E w \in C13_SignificantWords(r) : Contains(t, w)
    /\ \E i \in DOMAIN Split(t) : Split(t)[i] \in _mgmt_keywords

C14_SomeRule(t, r) ==
    \/ C14_Substring(t, r)
    \/ C14_Abbreviation(t, r)
    \/ C14_RelatedTitle(t, r)
    \/ C14_AllWords(t, r)
    \/ C14_PartialWord(t, r)

RECURSIVE C15_Gathered(_, _)
C15_Gathered(log, i) ==
    IF i > Len(log) THEN <<>>
    ELSE (IF log[i].raised THEN <<>> ELSE log[i].jobs) \o C15_Gathered(log, i + 1)

\* the values a dict, kept as (key, value) pairs, holds for a key
C15_Values(pairs, key) == {pairs[i][2] : i \in {k \in DOMAIN pairs : pairs[k][1] = key}}

\* C15: the loop calls the search of every selected source, also after a
\* search that raised; the raw jobs are those the searches that returned
\* handed back, in order; a source whose search raised is recorded with 0
\* jobs and an error string of at most ErrorLimit characters, a source whose
\* search returned with the length of its list and no error.
C15_FaultIsolation ==
    /\ pc = "filter" =>
          /\ Len(searched) = Len(selected_sources)
          /\ \A i \in DOMAIN searched : searched[i].source = selected_sources[i]
    /\ pc \in {"search", "filter"} =>
          /\ all_raw_jobs = C15_Gathered(searched, 1)
          /\ \A i \in DOMAIN searched :
                IF searched[i].raised
                THEN /\ C15_Values(source_results, searched[i].source) = {0}
                     /\ C15_Values(source_errors, searched[i].source)
                           = {Truncate(searched[i].message, 80)}
                     /\ \A e \in C15_Values(source_errors, searched[i].source) :
                           e # None /\ Len(e) <= 80
                ELSE /\ C15_Values(source_results, searched[i].source)
                           = {Len(searched[i].jobs)}
                     /\ C15_Values(source_errors, searched[i].source) = {}

\* the first search raised with a long message, the second raised, and the
\* third was still called and its job is the raw result
C15_Witness ==
    /\ pc = "filter"
    /\ searched[1].raised
    /\ Len(searched[1].message) > 80
    /\ searched[2].raised
    /\ ~searched[3].raised
    /\ searched[3].jobs # <<>>
    /\ all_raw_jobs = searched[3].jobs
    /\ source_results = <<<<"Seek", 0>>, <<"Adzuna", 0>>, <<"LinkedIn", 1>>>>

\* C16 (as claimed): in a run with Adzuna selected and its credentials
\* absent, the search of the Adzuna adapter returns an empty list without
\* raising, and the run records 0 jobs and no error for Adzuna.
C16_Original ==
    \A i \in DOMAIN searched :
        (searched[i].source = "Adzuna" /\ ~is_configured(adzuna)) =>
            /\ ~searched[i].raised
            /\ searched[i].jobs = <<>>
            /\ C15_Values(source_results, "Adzuna") = {0}
            /\ C15_Values(source_errors, "Adzuna") = {}

\* the rows of a table as the jobs they were saved from
C17_StoredJobs(table) ==
    [i \in DOMAIN table |->
        Job(table[i].title, table[i].company, table[i].location, table[i].url,
            table[i].source, table[i].description, table[i].salary,
            table[i].date_posted, table[i].scraped_at)]

\* C17 (as claimed): the store is not written before the last search has
\* ended; a run that stops before it completes leaves the stored jobs and the
\* run history as they were when it started; a run that completes leaves the
\* store holding its filtered jobs and one more run record.
C17_Original ==
    /\ pc \in {"search", "filter", "clear"} =>
          (jobs_table = run_start_jobs /\ scrape_runs = run_start_runs)
    /\ pc = "aborted" => (jobs_table = run_start_jobs /\ scrape_runs = run_start_runs)
    /\ pc = "done" =>
          /\ C17_StoredJobs(jobs_table) = filtered
          /\ Len(scrape_runs) = Len(run_start_runs) + 1

\* a failure that search handles: no connection, a status other than 200,
\* or a payload nothing can be read from
C18_Failure(fetch) ==
    \/ fetch.kind = "transport"
    \/ fetch.status_code # 200
    \/ fetch.payload # "listing"

\* the jobs the queries log[i..] contribute
RECURSIVE C18_Contributed(_, _)
C18_Contributed(log, i) ==
    IF i > Len(log) THEN <<>>
    ELSE (IF C18_Failure(log[i]) THEN <<>> ELSE log[i].jobs) \o C18_Contributed(log, i + 1)

\* C18: search never raises; a role whose query met a transport exception, a
\* status other than 200 or an unreadable payload contributes no job, and
\* search leaves the loop only after the last role, returning the jobs of
\* the other roles.
C18_NeverRaises ==
    /\ search_pc # "raised"
    /\ all_jobs = C18_Contributed(fetched, 1)
    /\ (search_pc = "returned" /\ fetched # <<>>) => Len(fetched) = Len(roles)

\* LinkedIn answered the first role with 999 and the second with a listing
C18_Witness ==
    /\ search_pc = "returned"
    /\ scraper = "LinkedIn"
    /\ Len(roles) = 2
    /\ fetched[1].status_code = 999
    /\ fetched[2].payload = "listing"
    /\ fetched[2].jobs # <<>>
    /\ all_jobs = fetched[2].jobs

C20_Names(list) == {list[i] : i \in DOMAIN list}

\* the record a finished task stands for
C20_RecordOf(probe) ==
    IF probe.raised THEN HealthRecord(FALSE, 0, NoStatus, Truncate(probe.message, 60))
    ELSE probe.record

\* C20 (as claimed): check_all_sources returns for every list, the empty
\* list included, a map whose keys are the names of the list, each mapped to
\* a health record of that source (an offline record when its probe raised).
C20_Original ==
    health_pc \in {"returned", "raised"} =>
        /\ health_pc = "returned"
        /\ DOMAIN results = C20_Names(sources)
        /\ \A name \in DOMAIN results :
              \E i \in DOMAIN sources :
                 sources[i] = name /\ results[name] = C20_RecordOf(probes[i])

\* ---------------------------------------------------------------------
\* claims C21 .. C30
\* ---------------------------------------------------------------------

\* the role is a key of RELATED_ROLES, or contains a key, or is contained in one
C21_Found(r) ==
    \E i \in DOMAIN RELATED_ROLES :
        \/ RELATED_ROLES[i][1] = r
        \/ Contains(r, RELATED_ROLES[i][1])
        \/ Contains(RELATED_ROLES[i][1], r)

\* C21: in similar mode, for a role found in RELATED_ROLES neither by exact
\* key nor by substring overlap with a key, matches_role is true only if the
\* substring, abbreviation, all-significant-words or partial-word rule holds.
C21_Original ==
    (/\ pc = "matched"
     /\ matched.mode = "similar"
     /\ ~C21_Found(C12_LowerStrip(matched.role))
     /\ matched.result)
    => LET t == C12_LowerStrip(matched.job_title)
           r == C12_LowerStrip(matched.role)
       IN  \/ C14_Substring(t, r)
           \/ C14_Abbreviation(t, r)
           \/ C14_AllWords(t, r)
           \/ C14_PartialWord(t, r)

C30_Monotone ==
    pc = "matched" =>
        /\ (matched.mode = "exact" /\ matched.result)
              => matches_role(matched.job_title, matched.role, "similar")
        /\ (matched.mode = "similar" /\ ~matched.result)
              => ~matches_role(matched.job_title, matched.role, "exact")

\* a title matched in exact mode by the abbreviation rule alone
C30_Witness ==
    /\ pc = "matched"
    /\ matched.mode = "exact"
    /\ matched.job_title = "PM"
    /\ matched.role = "Project Manager"
    /\ matched.result
    /\ matches_role(matched.job_title, matched.role, "similar")

\* C29: in filter_jobs a job that matches no role does not mark its dedup
\* key as seen: a job that matches a role, and whose key no earlier matching
\* job has, is in the output, also when earlier jobs that match no role have
\* the same url (or the same title|company key).
C29_UnmatchedNotSeen ==
    pc = "filtered" =>
        \A j \in DOMAIN all_raw_jobs :
            (/\ Matching(j)
             /\ \A i \in 1 .. (j - 1) :
                   dedup_key(all_raw_jobs[i]) = dedup_key(all_raw_jobs[j]) => ~Matching(i))
            => \E k \in DOMAIN filtered : filtered[k] = all_raw_jobs[j]

\* a job that matches no role, then a matching job with the same url: kept
C29_Witness ==
    /\ pc = "filtered"
    /\ Len(all_raw_jobs) >= 2
    /\ ~Matching(1)
    /\ Matching(2)
    /\ all_raw_jobs[1].url # ""
    /\ dedup_key(all_raw_jobs[1]) = dedup_key(all_raw_jobs[2])
    /\ \E k \in DOMAIN filtered : filtered[k] = all_raw_jobs[2]

\* C23: within one adapter's search over a list of roles, between any two
\* consecutive queries to the source lies a sleep of that source's fixed
\* delay (1 to 3 seconds), whatever the outcome of the earlier query
\* (results, nothing, or an exception caught for that role).
C23_Original ==
    /\ Delay(scraper) \in 1 .. 3
    /\ \A i, j \in DOMAIN events :
          (i < j /\ events[i].kind = "query" /\ events[j].kind = "query")
          => \E k \in (i + 1) .. (j - 1) : events[k] = Sleep(Delay(scraper))

\* C24: HTML extraction tries its selector strategies in their fixed order
\* and uses the containers of the first strategy that finds at least one:
\* the result is that strategy's list, whatever the later strategies would
\* find, and never holds containers of two strategies.
C24_FirstStrategy ==
    parse_pc = "cards" =>
        LET n == IF scraper = "GradConnection" THEN 5 ELSE 2
            hits == {k \in 1 .. n : Candidates(scraper, k, soup) # <<>>}
        IN  /\ hits = {} => job_cards = <<>>
            /\ \A k \in hits :
                  (\A h \in hits : k <= h) => job_cards = Candidates(scraper, k, soup)

\* a page on which two strategies find different containers: only those of
\* the earlier strategy are used
C24_Witness ==
    /\ parse_pc = "cards"
    /\ scraper = "GradConnection"
    /\ \E k, h \in 1 .. 5 :
          /\ k < h
          /\ job_cards = Candidates(scraper, k, soup)
          /\ job_cards # <<>>
          /\ \E i \in DOMAIN Candidates(scraper, h, soup) :
                \A c \in DOMAIN job_cards : job_cards[c] # Candidates(scraper, h, soup)[i]

\* what the claim says of one item: nothing when the title is missing or
\* empty, else the title with company, location and description or their
\* defaults
C25_Claimed(name, item) ==
    LET Missing(f) == f.kind # "value"
    IN  IF name = "Adzuna"
        THEN IF Missing(item.title) \/ item.title.value = "" THEN <<>>
             ELSE <<[title |-> item.title.value,
                     company |-> IF item.company.kind # "object"
                                    \/ Missing(item.company.display_name)
                                 THEN "Unknown" ELSE item.company.display_name.value,
                     location |-> IF item.location.kind # "object"
                                     \/ Missing(item.location.area)
                                     \/ item.location.area.value = <<>>
                                  THEN "Australia" ELSE LastTwo(item.location.area.value),
                     description |-> IF Missing(item.description) THEN ""
                                     ELSE item.description.value]>>
        ELSE IF Missing(item.title_el) \/ item.title_el.value = "" THEN <<>>
             ELSE <<[title |-> item.title_el.value,
                     company |-> IF Missing(item.company_el)
                                    \/ \A i \in DOMAIN item.company_el.value :
                                          item.company_el.value[i] = item.title_el.value
                                 THEN "Unknown"
                                 ELSE item.company_el.value[
                                          CHOOSE i \in DOMAIN item.company_el.value :
                                              /\ item.company_el.value[i] # item.title_el.value
                                              /\ \A j \in 1 .. (i - 1) :
                                                    item.company_el.value[j] = item.title_el.value],
                     location |-> IF Missing(item.location_el) \/ item.location_el.value = ""
                                  THEN "Australia" ELSE item.location_el.value,
                     description |-> IF Missing(item.discipline_el) THEN ""
                                     ELSE item.discipline_el.value]>>

RECURSIVE C25_ClaimedJobs(_, _)
C25_ClaimedJobs(name, payload) ==
    IF payload = <<>> THEN <<>>
    ELSE C25_Claimed(name, Head(payload)) \o C25_ClaimedJobs(name, Tail(payload))

\* C25: an item is discarded exactly when its title is missing or empty:
\* every Job that leaves the adapter has a non-empty title, and an item with
\* a title whose company, location or description is absent or null is kept
\* with "Unknown", "Australia" or the empty string in its place.
C25_Original ==
    parse_pc = "parsed" =>
        /\ \A k \in DOMAIN parsed : parsed[k].title # None /\ parsed[k].title # ""
        /\ [k \in DOMAIN parsed |->
               [title |-> parsed[k].title, company |-> parsed[k].company,
                location |-> parsed[k].location, description |-> parsed[k].description]]
           = C25_ClaimedJobs(scraper, items)

\* how often name occurs in list
C26_Count(list, name) == Cardinality({i \in DOMAIN list : list[i] = name})

C27_Original ==
    /\ [](health_pc = "running" =>
             /\ Cardinality(Running) <= (IF Len(sources) < 8 THEN Len(sources) ELSE 8)
             /\ (/\ Cardinality(Running) = 1
                 /\ \E j \in DOMAIN probes : probes[j].state = "pending")
                => ENABLED ProbeStart
             /\ (\E j \in DOMAIN probes : probes[j].state = "done") => ENABLED Collect)
    /\ <>(health_pc = "returned")

\* C28: after every run that completes, the stored jobs are exactly the
\* run's filtered jobs: the jobs table has as many rows as the jobs_found
\* recorded for the run, and every filtered job, with or without a url, has
\* a stored row.
C28_Original ==
    pc = "done" =>
        /\ Len(jobs_table) = LastRun.jobs_found
        /\ \A k \in DOMAIN filtered :
              \E i \in DOMAIN jobs_table : C17_StoredJobs(jobs_table)[i] = filtered[k]
====
